---- MODULE Spec2Model ----
(***************************************************************************)
(* A model of rectanglify (src/src/rects.rs) and of the GStreamer element  *)
(* that calls it once per frame (src/src/plugin.rs).                       *)
(*                                                                         *)
(* f64 values are modelled as exact rationals <<n, d>> in lowest terms     *)
(* with d > 0, plus the two non-finite values the code can produce:        *)
(* NaN == <<0, 0>> (0.0 / 0.0) and the infinities <<1, 0>>, <<-1, 0>>.     *)
(* Rounding error of f64 arithmetic is not modelled.                       *)
(* Pixels are Luma<u8>: one channel, 0 = black, 255 = white.               *)
(* The recursion of draw_rects is unrolled into an explicit call stack:    *)
(* one DrawRects step is one call of draw_rects, up to its recursive calls.*)
(***************************************************************************)
EXTENDS Integers, Sequences, FiniteSets

\* ------------------------------------------------------------------ bounds

\* Input images have at most MaxPixels pixels (width * height).
MaxPixels == 4
\* rects_per_pixel ranges over 0, 1/2, 1, ..., MaxRppHalves / 2 (and the default).
MaxRppHalves == 7
\* Video frames handed to the element have at most FrameMaxPixels pixels.
FrameMaxPixels == 2

\* --------------------------------------------------------- program constants

\* P::Subpixel::DEFAULT_MAX_VALUE and DEFAULT_MIN_VALUE of u8.
DEFAULT_MAX_VALUE == 255
DEFAULT_MIN_VALUE == 0
\* What a saturating `as u32` / `as usize` cast of +infinity stands for here.
SaturatedCast == 2147483647

\* ------------------------------------------------------------ f64 arithmetic

NaN == <<0, 0>>
Zero == <<0, 1>>
One == <<1, 1>>

Abs(n) == IF n < 0 THEN -n ELSE n

Sign(n) == IF n < 0 THEN -1 ELSE IF n > 0 THEN 1 ELSE 0

RECURSIVE GCD(_, _)
GCD(a, b) == IF b = 0 THEN a ELSE GCD(b, a % b)

\* The rational n / d, d > 0, in lowest terms.
Rat(n, d) == LET g == GCD(Abs(n), d) IN <<n \div g, d \div g>>

\* `k as f64` of an integer.
ToF64(k) == <<k, 1>>

IsNaN(a) == a[1] = 0 /\ a[2] = 0

IsFinite(a) == a[2] > 0

RNeg(a) == <<-a[1], a[2]>>

RAdd(a, b) ==
    IF IsNaN(a) \/ IsNaN(b) THEN NaN
    ELSE IF a[2] = 0 /\ b[2] = 0 THEN (IF a[1] = b[1] THEN a ELSE NaN)
    ELSE IF a[2] = 0 THEN a
    ELSE IF b[2] = 0 THEN b
    ELSE LET g == GCD(a[2], b[2])
         IN  Rat(a[1] * (b[2] \div g) + b[1] * (a[2] \div g), (a[2] \div g) * b[2])

RSub(a, b) == RAdd(a, RNeg(b))

RMul(a, b) ==
    IF IsNaN(a) \/ IsNaN(b) THEN NaN
    ELSE IF a[2] = 0 \/ b[2] = 0
         THEN (IF a[1] = 0 \/ b[1] = 0 THEN NaN ELSE <<Sign(a[1]) * Sign(b[1]), 0>>)
    ELSE IF a[1] = 0 \/ b[1] = 0 THEN Zero
    ELSE LET g1 == GCD(Abs(a[1]), b[2])
             g2 == GCD(Abs(b[1]), a[2])
         IN  <<(a[1] \div g1) * (b[1] \div g2), (a[2] \div g2) * (b[2] \div g1)>>

\* 1 / b for b not NaN; 1 / 0 is +infinity.
RInv(b) ==
    IF b[2] = 0 THEN Zero
    ELSE IF b[1] = 0 THEN <<1, 0>>
    ELSE IF b[1] > 0 THEN <<b[2], b[1]>>
    ELSE <<-b[2], -b[1]>>

\* a / b: 0 / 0 and inf / inf are NaN, x / 0 is infinite.
RDiv(a, b) ==
    IF IsNaN(a) \/ IsNaN(b) THEN NaN
    ELSE IF a[1] = 0 /\ b[1] = 0 /\ b[2] # 0 THEN NaN
    ELSE IF a[2] = 0 /\ b[2] = 0 THEN NaN
    ELSE RMul(a, RInv(b))

\* a < b; false when either is NaN.
RLt(a, b) ==
    IF IsNaN(a) \/ IsNaN(b) THEN FALSE
    ELSE IF a[2] = 0 /\ b[2] = 0 THEN a[1] < b[1]
    ELSE IF a[2] = 0 THEN a[1] < 0
    ELSE IF b[2] = 0 THEN b[1] > 0
    ELSE LET g == GCD(a[2], b[2])
         IN  a[1] * (b[2] \div g) < b[1] * (a[2] \div g)

RGt(a, b) == RLt(b, a)

\* !(a < b): what `a >= b` would be if NaN compared like a number.
GeqAsNotLt(a, b) == ~RLt(a, b)

\* a >= b; false when either is NaN.
RGeq(a, b) == ~IsNaN(a) /\ ~IsNaN(b) /\ ~RLt(a, b)

RLeq(a, b) == RGeq(b, a)

\* f64::max: a NaN operand is ignored.
RMax(a, b) == IF IsNaN(a) THEN b ELSE IF IsNaN(b) THEN a ELSE IF RLt(a, b) THEN b ELSE a

\* A saturating cast of an integral f64 to an unsigned integer: NaN and
\* negatives become 0.
AsUnsigned(a) ==
    IF IsNaN(a) THEN 0
    ELSE IF a[2] = 0 THEN (IF a[1] > 0 THEN SaturatedCast ELSE 0)
    ELSE IF a[1] < 0 THEN 0
    ELSE a[1] \div a[2]

\* f64::floor and f64::ceil (non-finite values are returned unchanged).
RFloor(a) == IF a[2] = 0 THEN a ELSE <<a[1] \div a[2], 1>>

RCeil(a) == IF a[2] = 0 THEN a ELSE <<-((-a[1]) \div a[2]), 1>>

\* Truncation: what (a as usize) alone would give.
TruncUsize(a) == AsUnsigned(RFloor(a))

\* a.round() as usize: halves round away from zero.
RoundUsize(a) ==
    IF a[2] = 0 THEN AsUnsigned(a)
    ELSE IF a[1] >= 0 THEN AsUnsigned(RFloor(RAdd(a, <<1, 2>>)))
    ELSE 0

FloorU32(a) == AsUnsigned(RFloor(a))

CeilU32(a) == AsUnsigned(RCeil(a))

\* ------------------------------------------------------------------- images

\* Luma values of the pixels of the inputs: black, a dark gray, white.
Lumas == {0, 102, 255}

Dims(maxPixels) ==
    {d \in (1..maxPixels) \X (1..maxPixels) : d[1] * d[2] <= maxPixels}

Coords(w, h) == (0..(w - 1)) \X (0..(h - 1))

\* An image: its width, its height and the luma of every pixel.
ImagesOf(maxPixels, lumas) ==
    UNION {[width : {d[1]}, height : {d[2]}, px : [Coords(d[1], d[2]) -> lumas]] :
           d \in Dims(maxPixels)}

Images == ImagesOf(MaxPixels, Lumas)

Frames == ImagesOf(FrameMaxPixels, {DEFAULT_MIN_VALUE, DEFAULT_MAX_VALUE})

Filled(w, h, v) == [width |-> w, height |-> h, px |-> [c \in Coords(w, h) |-> v]]

InBounds(image, x, y) == x < image.width /\ y < image.height

DEFAULT_RECTS_PER_PIXEL == <<1, 10>>

RppChoices == {Rat(k, 2) : k \in 0..MaxRppHalves} \cup {DEFAULT_RECTS_PER_PIXEL}

\* ------------------------------------------------------------ DarknessModel

Rectangle(l, t, r, b) == [left |-> l, top |-> t, right |-> r, bottom |-> b]

Width(rect) == RSub(rect.right, rect.left)

Height(rect) == RSub(rect.bottom, rect.top)

darkness(p) == RSub(One, RDiv(ToF64(p), ToF64(DEFAULT_MAX_VALUE)))

\* One axis of darkness_at: the factor applied for pixel index i against the
\* edges lo and hi of the rectangle (One when no branch is taken).
AxisFactor(i, lo, hi) ==
    IF RLt(ToF64(i), lo) THEN RMax(RSub(ToF64(i + 1), lo), Zero)
    ELSE IF RGt(ToF64(i + 1), hi) THEN RMax(RSub(hi, ToF64(i)), Zero)
    ELSE One

darkness_at(image, rect, x, y) ==
    RMul(RMul(darkness(image.px[<<x, y>>]), AxisFactor(x, rect.left, rect.right)),
         AxisFactor(y, rect.top, rect.bottom))

\* ----------------------------------------------------------------- Renderer

black == DEFAULT_MIN_VALUE

white == DEFAULT_MAX_VALUE

\* The pixels a line sets, and whether drawing them panics: `ceil(end) - 1`
\* underflows when ceil(end) is 0, and put_pixel panics outside the image.
LineResult(image, pts, underflow) ==
    [px |-> [c \in DOMAIN image.px |-> IF c \in pts THEN black ELSE image.px[c]],
     panic |-> underflow \/ \E c \in pts : ~InBounds(image, c[1], c[2])]

horizontal_line(image, y, start_x, end_x) ==
    LET sx == FloorU32(RMul(start_x, ToF64(image.width)))
        ce == CeilU32(RMul(end_x, ToF64(image.width)))
        yi == FloorU32(RMul(y, ToF64(image.height)))
    IN  LineResult(image, {<<x, yi>> : x \in sx..(ce - 1)}, ce = 0)

vertical_line(image, x, start_y, end_y) ==
    LET sy == FloorU32(RMul(start_y, ToF64(image.height)))
        ce == CeilU32(RMul(end_y, ToF64(image.height)))
        xi == FloorU32(RMul(x, ToF64(image.width)))
    IN  LineResult(image, {<<xi, y>> : y \in sy..(ce - 1)}, ce = 0)

\* ---------------------------------------------------------- PartitionEngine

\* width >= height: the axis test with the tie resolved the other way.
ColumnsOnTie(area) == RGeq(Width(area), Height(area))

\* area.width() > area.height(): scan columns (TRUE) or rows (FALSE).
ScanColumns(area) == RGt(Width(area), Height(area))

\* rects / 2 of usize.
TargetRects(rects) == rects \div 2

TargetDarkness(rects, rpp) == RDiv(ToF64(TargetRects(rects)), rpp)

\* The range of the outer loop and of the inner loop of a scan.
ScanStart(area, columns) == FloorU32(IF columns THEN area.left ELSE area.top)

ScanEnd(area, columns) == CeilU32(IF columns THEN area.right ELSE area.bottom)

PerpStart(area, columns) == FloorU32(IF columns THEN area.top ELSE area.left)

PerpEnd(area, columns) == CeilU32(IF columns THEN area.bottom ELSE area.right)

\* get_pixel panics outside the image.
ReadsOutside(image, area, columns, i) ==
    IF columns
    THEN i >= image.width \/ PerpEnd(area, columns) > image.height
    ELSE i >= image.height \/ PerpEnd(area, columns) > image.width

\* column_darkness / row_darkness: the inner loop, from j on.
RECURSIVE LineDarkness(_, _, _, _, _)
LineDarkness(image, area, columns, i, j) ==
    IF j >= PerpEnd(area, columns) THEN Zero
    ELSE RAdd(IF columns THEN darkness_at(image, area, i, j)
                         ELSE darkness_at(image, area, j, i),
              LineDarkness(image, area, columns, i, j + 1))

\* (i + 1) with nothing taken away: the split at the end of the line.
SplitAtLineEnd(i, overshoot, line_darkness) == ToF64(i + 1)

\* (i + 1) as f64 - overshoot / line_darkness
Split(i, overshoot, line_darkness) ==
    RSub(ToF64(i + 1), RDiv(overshoot, line_darkness))

\* The outer loop from index i on, with `acc` the darkness found so far:
\* the first line at which the darkness reaches the target, if any.
RECURSIVE Scan(_, _, _, _, _, _)
Scan(image, area, columns, target, i, acc) ==
    IF i >= ScanEnd(area, columns)
    THEN [found |-> FALSE, panic |-> FALSE, index |-> i, darkness |-> acc,
          line_darkness |-> Zero, split |-> Zero]
    ELSE IF ReadsOutside(image, area, columns, i)
    THEN [found |-> FALSE, panic |-> TRUE, index |-> i, darkness |-> acc,
          line_darkness |-> Zero, split |-> Zero]
    ELSE LET line == LineDarkness(image, area, columns, i, PerpStart(area, columns))
             dk == RAdd(acc, line)
         IN  IF RGeq(dk, target)
             THEN [found |-> TRUE, panic |-> FALSE, index |-> i, darkness |-> dk,
                   line_darkness |-> line,
                   split |-> Split(i, RSub(dk, target), line)]
             ELSE Scan(image, area, columns, target, i + 1, dk)

\* The two rectangles of a split.
FirstChild(area, columns, split) ==
    IF columns THEN [area EXCEPT !.right = split] ELSE [area EXCEPT !.bottom = split]

SecondChild(area, columns, split) ==
    IF columns THEN [area EXCEPT !.left = split] ELSE [area EXCEPT !.top = split]

\* rects - 1: all but one rectangle handed to the first half.
AllButOne(rects) == rects - 1

\* The counts of the two recursive calls: rects / 2 and rects - rects / 2.
FirstCount(rects) == rects \div 2

SecondCount(rects) == rects - rects \div 2

\* The separator line of a split, drawn over the perpendicular extent of area.
DrawSplit(input, out, area, columns, split) ==
    IF columns
    THEN vertical_line(out, RDiv(split, ToF64(input.width)),
                       RDiv(area.top, ToF64(input.height)),
                       RDiv(area.bottom, ToF64(input.height)))
    ELSE horizontal_line(out, RDiv(split, ToF64(input.height)),
                         RDiv(area.left, ToF64(input.width)),
                         RDiv(area.right, ToF64(input.width)))

\* ------------------------------------------------------------- Orchestrator

RECURSIVE SumSeq(_)
SumSeq(s) == IF s = <<>> THEN Zero ELSE RAdd(s[1], SumSeq(Tail(s)))

\* input.pixels() in row-major order.
PixelSeq(image) ==
    [k \in 1..(image.width * image.height) |->
        image.px[<<(k - 1) % image.width, (k - 1) \div image.width>>]]

TotalDarkness(image) ==
    SumSeq([k \in 1..(image.width * image.height) |-> darkness(PixelSeq(image)[k])])

NumRects(total, rpp) == RoundUsize(RMul(total, rpp))

\* The setting left as the caller gave it.
NotRecalibrated(num, total, rpp) == rpp

\* settings.rects_per_pixel = num_rects as f64 / total_darkness
Recalibrate(num, total, rpp) == RDiv(ToF64(num), total)

\* The live value of the element's setting, read at the call.
LiveSetting(copied, live) == live

\* The Settings value transform_frame hands to rectanglify: its own copy.
SettingsArg(copied, live) == copied

\* -------------------------------------------------------------------- state

VARIABLES
    shared,          \* Rectanglify.settings.rects_per_pixel, behind the mutex
    pc,              \* "idle", "rectanglify", "draw_rects", "done", "panicked"
    input,           \* the input image of the call
    output,          \* the output image of the call
    snapshot,        \* the caller's Settings value (transform_frame's local copy)
    settings,        \* rectanglify's own `settings`, recalibrated in place
    total_darkness,  \* rectanglify's total_darkness
    num_rects,       \* rectanglify's num_rects
    stack,           \* the calls of draw_rects still to run, the next one first
    last,            \* what the latest call of draw_rects did
    leaves,          \* calls of draw_rects that ended without splitting
    cells,           \* the areas of those calls
    vlines,          \* calls of vertical_line
    hlines,          \* calls of horizontal_line
    written          \* whether set_property ran since the call's Settings were copied

vars == <<shared, pc, input, output, snapshot, settings, total_darkness, num_rects,
          stack, last, leaves, cells, vlines, hlines, written>>

NoArea == Rectangle(Zero, Zero, Zero, Zero)

NoCall == [kind |-> "none", area |-> NoArea, rects |-> 0, depth |-> 0, rpp |-> Zero,
           columns |-> FALSE, target |-> Zero, index |-> 0, darkness |-> Zero,
           line_darkness |-> Zero, split |-> Zero, first |-> NoArea, second |-> NoArea]

Frame(s, area, rects, depth) ==
    [settings |-> s, area |-> area, rects |-> rects, depth |-> depth]

\* The state of a call of rectanglify(input, output, s) about to run.
Called(in, out, s) ==
    /\ input = in
    /\ output = out
    /\ snapshot = s
    /\ settings = s
    /\ total_darkness = Zero
    /\ num_rects = 0
    /\ stack = <<>>
    /\ last = NoCall
    /\ leaves = 0
    /\ cells = {}
    /\ vlines = 0
    /\ hlines = 0
    /\ written = FALSE

\* main: rectanglify(&input, &mut output, settings) on a zeroed GrayImage of
\* the input's size.
Init ==
    /\ shared = DEFAULT_RECTS_PER_PIXEL
    /\ pc = "rectanglify"
    /\ \E in \in Images, s \in RppChoices :
          Called(in, Filled(in.width, in.height, 0), s)

\* The element: created with Settings::default(), no frame in flight.
InitElement ==
    /\ shared = DEFAULT_RECTS_PER_PIXEL
    /\ pc = "idle"
    /\ Called(Filled(1, 1, white), Filled(1, 1, white), DEFAULT_RECTS_PER_PIXEL)

\* ------------------------------------------------------------------ actions

\* set_property("rects-per-pixel", value): the write under the lock.
SetProperty ==
    /\ \E value \in RppChoices : shared' = value
    /\ written' = TRUE
    /\ UNCHANGED <<pc, input, output, snapshot, settings, total_darkness, num_rects,
                   stack, last, leaves, cells, vlines, hlines>>

\* transform_frame, up to the call of rectanglify: the copy of the settings
\* under the lock, and the frame's two images.
TransformFrame ==
    /\ pc \in {"idle", "done"}
    /\ \E in \in Frames, fill \in {black, white} :
          /\ input' = in
          /\ output' = Filled(in.width, in.height, fill)
    /\ snapshot' = shared
    /\ settings' = shared
    /\ pc' = "rectanglify"
    /\ total_darkness' = Zero
    /\ num_rects' = 0
    /\ stack' = <<>>
    /\ last' = NoCall
    /\ leaves' = 0
    /\ cells' = {}
    /\ vlines' = 0
    /\ hlines' = 0
    /\ written' = FALSE
    /\ UNCHANGED shared

\* rectanglify, up to its call of draw_rects.
Rectanglify ==
    /\ pc = "rectanglify"
    /\ LET arg == SettingsArg(snapshot, shared)
           total == TotalDarkness(input)
           num == NumRects(total, arg)
           rpp == Recalibrate(num, total, arg)
       IN  /\ total_darkness' = total
           /\ num_rects' = num
           /\ settings' = rpp
           /\ output' = Filled(output.width, output.height, white)
           /\ stack' = <<Frame(rpp,
                               Rectangle(Zero, Zero, ToF64(input.width),
                                         ToF64(input.height)),
                               num, 0)>>
    /\ pc' = "draw_rects"
    /\ UNCHANGED <<shared, input, snapshot, last, leaves, cells, vlines, hlines, written>>

\* What a call of draw_rects with count 1 reports: it returns at once.
NoScan ==
    [found |-> FALSE, panic |-> FALSE, index |-> 0, darkness |-> Zero,
     line_darkness |-> Zero, split |-> Zero]

\* The scan of a call of draw_rects.
ScanOf(call) ==
    IF call.rects = 1 THEN NoScan
    ELSE Scan(input, call.area, ScanColumns(call.area),
              TargetDarkness(call.rects, call.settings),
              ScanStart(call.area, ScanColumns(call.area)), Zero)

\* One call of draw_rects: the next one of the stack.
DrawRects ==
    /\ pc = "draw_rects"
    /\ stack # <<>>
    /\ \E call \in {Head(stack)} :
       \E columns \in {ScanColumns(call.area)} :
       \E scan \in {ScanOf(call)} :
       \E line \in {IF scan.found
                    THEN DrawSplit(input, output, call.area, columns, scan.split)
                    ELSE [px |-> output.px, panic |-> FALSE]} :
       LET area == call.area
           rects == call.rects
           first == FirstChild(area, columns, scan.split)
           second == SecondChild(area, columns, scan.split)
           rest == IF scan.found /\ ~line.panic
                   THEN <<Frame(call.settings, first, FirstCount(rects), call.depth + 1),
                          Frame(call.settings, second, SecondCount(rects),
                                call.depth + 1)>> \o Tail(stack)
                   ELSE Tail(stack)
       IN  /\ last' = [kind |-> IF rects = 1 THEN "leaf"
                                 ELSE IF scan.found THEN "split" ELSE "exhausted",
                       area |-> area, rects |-> rects, depth |-> call.depth,
                       rpp |-> call.settings, columns |-> columns,
                       target |-> IF rects = 1 THEN Zero
                                  ELSE TargetDarkness(rects, call.settings),
                       index |-> scan.index, darkness |-> scan.darkness,
                       line_darkness |-> scan.line_darkness, split |-> scan.split,
                       first |-> IF scan.found THEN first ELSE NoArea,
                       second |-> IF scan.found THEN second ELSE NoArea]
           /\ output' = [output EXCEPT !.px = line.px]
           /\ vlines' = IF scan.found /\ columns THEN vlines + 1 ELSE vlines
           /\ hlines' = IF scan.found /\ ~columns THEN hlines + 1 ELSE hlines
           /\ leaves' = IF scan.found \/ scan.panic THEN leaves ELSE leaves + 1
           /\ cells' = IF scan.found \/ scan.panic THEN cells ELSE cells \cup {area}
           /\ stack' = rest
           /\ pc' = IF scan.panic \/ line.panic THEN "panicked"
                    ELSE IF rest = <<>> THEN "done"
                    ELSE "draw_rects"
    /\ UNCHANGED <<shared, input, snapshot, settings, total_darkness, num_rects, written>>

Next == Rectanglify \/ DrawRects

Spec == Init /\ [][Next]_vars

NextElement == SetProperty \/ TransformFrame \/ Rectanglify \/ DrawRects

SpecElement == InitElement /\ [][NextElement]_vars

\* ------------------------------------------------------- notions of the claims

RMin(a, b) == IF RLt(b, a) THEN b ELSE a

WellFormed(rect) == RLeq(rect.left, rect.right) /\ RLeq(rect.top, rect.bottom)

Contained(child, parent) ==
    /\ RLeq(parent.left, child.left)
    /\ RLeq(child.right, parent.right)
    /\ RLeq(parent.top, child.top)
    /\ RLeq(child.bottom, parent.bottom)

\* The length of the overlap of [i, i + 1] with [lo, hi].
Overlap(i, lo, hi) ==
    RMax(Zero, RSub(RMin(ToF64(i + 1), hi), RMax(ToF64(i), lo)))

\* The sum of darkness_at over the pixels a scan of the area covers.
RECURSIVE AreaDarknessFrom(_, _, _)
AreaDarknessFrom(image, area, i) ==
    IF i >= ScanEnd(area, TRUE) THEN Zero
    ELSE RAdd(LineDarkness(image, area, TRUE, i, PerpStart(area, TRUE)),
              AreaDarknessFrom(image, area, i + 1))

AreaDarkness(image, area) == AreaDarknessFrom(image, area, ScanStart(area, TRUE))

RECURSIVE CeilLog2(_)
CeilLog2(n) == IF n <= 1 THEN 0 ELSE 1 + CeilLog2((n + 1) \div 2)

\* The termination measure: 2 * rects - 1 calls remain below a call with
\* count rects >= 1, one call for a count of 0.
RECURSIVE Variant(_)
Variant(st) ==
    IF st = <<>> THEN 0
    ELSE (IF Head(st).rects = 0 THEN 1 ELSE 2 * Head(st).rects - 1) + Variant(Tail(st))

Running == pc \in {"draw_rects", "done", "panicked"}

AllWhite(image) == \A c \in DOMAIN image.px : image.px[c] = white

IsInteger(a) == a[2] = 1

\* The pixel index of the separator line of the latest split, and the
\* length of the axis it is measured on.
LineIndex ==
    IF last.columns
    THEN FloorU32(RMul(RDiv(last.split, ToF64(input.width)), ToF64(output.width)))
    ELSE FloorU32(RMul(RDiv(last.split, ToF64(input.height)), ToF64(output.height)))

LineAxisLength == IF last.columns THEN output.width ELSE output.height

\* ceil(spanEnd) of the latest split's line.
SpanEndCeil ==
    IF last.columns
    THEN CeilU32(RMul(RDiv(last.area.bottom, ToF64(input.height)), ToF64(output.height)))
    ELSE CeilU32(RMul(RDiv(last.area.right, ToF64(input.width)), ToF64(output.width)))

\* ------------------------------------------------------------------- claims

\* C1: every rectangle draw_rects passes to a recursive call is well formed
\* (left <= right, top <= bottom) and lies inside the area of the call that
\* produced it, also when that area has fractional edges.
C1_ChildrenContained ==
    last.kind = "split" =>
        /\ WellFormed(last.first) /\ Contained(last.first, last.area)
        /\ WellFormed(last.second) /\ Contained(last.second, last.area)

\* C9: for every pixel and every well-formed rectangle a call of draw_rects
\* scans, darkness_at is the pixel's darkness times the lengths of the
\* overlaps of the pixel with the rectangle on the two axes.
C9_DarknessAtIsOverlap ==
    \A k \in DOMAIN stack :
        (stack[k].rects >= 2 /\ WellFormed(stack[k].area)) =>
            \A c \in DOMAIN input.px :
                darkness_at(input, stack[k].area, c[1], c[2])
                  = RMul(RMul(darkness(input.px[c]),
                              Overlap(c[1], stack[k].area.left, stack[k].area.right)),
                         Overlap(c[2], stack[k].area.top, stack[k].area.bottom))

\* C10: a split gives the first child exactly target_darkness and the second
\* child the rest of the parent's darkness, so that every area passed to
\* draw_rects with count k holds darkness k / rects_per_pixel.
C10_ProportionalSplit ==
    /\ last.kind = "split" =>
          /\ AreaDarkness(input, last.first) = last.target
          /\ AreaDarkness(input, last.second)
               = RSub(AreaDarkness(input, last.area), last.target)
    /\ num_rects >= 1 =>
          \A k \in DOMAIN stack :
              AreaDarkness(input, stack[k].area)
                = RDiv(ToF64(stack[k].rects), stack[k].settings)

\* C2, as stated: whenever the total darkness is positive, the calls of
\* draw_rects that end without splitting number exactly num_rects.
C2_LeavesEqualNumRects ==
    (pc = "done" /\ RGt(total_darkness, Zero) /\ RGt(snapshot, Zero)) =>
        leaves = num_rects

\* C2, amended: a call splits exactly when its rects is 2 or more, and a
\* run with num_rects >= 1 ends with exactly num_rects calls that did not
\* split; a run whose num_rects rounds to 0 ends with the one root call.
C2_CountConservation ==
    /\ last.kind = "exhausted" => last.rects = 0
    /\ last.kind = "split" => last.rects >= 2
    /\ (pc = "done" /\ RGt(total_darkness, Zero)) =>
          leaves = (IF num_rects = 0 THEN 1 ELSE num_rects)

\* A run that ended with seven or more cells, one per requested rectangle.
C2_Witness ==
    pc = "done" /\ RGt(total_darkness, Zero) /\ num_rects >= 7 /\ leaves = num_rects

\* C3: on an all-white input num_rects is 0, draw_rects finds no split, draws
\* no line and makes no recursive call, nothing panics, and every output
\* pixel is left white.
C3_AllWhite ==
    (AllWhite(input) /\ Running) =>
        /\ num_rects = 0
        /\ pc # "panicked"
        /\ last.kind \in {"none", "exhausted"}
        /\ vlines = 0 /\ hlines = 0
        /\ Len(stack) <= 1
        /\ AllWhite(output)

\* An all-white image of several pixels, processed to the end with a
\* positive rects_per_pixel.
C3_Witness ==
    /\ AllWhite(input) /\ input.width * input.height >= 2
    /\ RGt(snapshot, One)
    /\ pc = "done" /\ last.kind = "exhausted" /\ last.rects = 0

\* C4: no call panics: every separator line lies on a pixel row or column of
\* the output (its index is below the width or height, so a split never
\* lands on the far edge of the canvas) and ceil(spanEnd) - 1 does not
\* underflow.
C4_NoPanic ==
    /\ pc # "panicked"
    /\ last.kind = "split" =>
          /\ LineIndex < LineAxisLength
          /\ SpanEndCeil >= 1

\* A split at a fractional coordinate inside the last row or column of the
\* canvas, in an area cut out by two earlier splits.
C4_Witness ==
    /\ last.kind = "split" /\ last.depth >= 2
    /\ ~IsInteger(last.split)
    /\ LineIndex = LineAxisLength - 1
    /\ pc # "panicked"

\* C6: every call of draw_rects brings the run closer to its end, the
\* nesting depth never exceeds ceil(log2(num_rects)), a split recurses with
\* floor(rects / 2) and rects - floor(rects / 2), both at least 1 and below
\* rects, and a call with rects = 1 or without a split recurses not at all.
C6_DepthAndCounts ==
    /\ num_rects >= 1 =>
          \A k \in DOMAIN stack :
              stack[k].depth <= CeilLog2(num_rects) /\ stack[k].rects >= 1
    /\ num_rects >= 1 => last.depth <= CeilLog2(num_rects)
    /\ (last.kind = "split" /\ pc # "panicked") =>
          /\ Len(stack) >= 2
          /\ stack[1].rects = last.rects \div 2
          /\ stack[2].rects = last.rects - last.rects \div 2
          /\ stack[1].rects >= 1 /\ stack[1].rects < last.rects
          /\ stack[2].rects >= 1 /\ stack[2].rects < last.rects
          /\ stack[1].depth = last.depth + 1 /\ stack[2].depth = last.depth + 1
    /\ last.kind = "leaf" => last.rects = 1

\* C6, in full: the bounds above hold in every state, and every call of
\* draw_rects lowers the number of calls still to come; a call that did not
\* split only returns.
C6_Terminates ==
    [](C6_DepthAndCounts)
      /\ [][pc = "draw_rects" =>
              /\ Variant(stack') < Variant(stack)
              /\ (last'.kind # "split" => stack' = Tail(stack))]_vars

\* A run of at least five rectangles whose recursion reached the deepest
\* level allowed.
C6_Witness ==
    pc = "done" /\ num_rects >= 5 /\ last.depth = CeilLog2(num_rects)

\* Scenario A: a 2 x 2 black image with rects_per_pixel = 1.0.
ScenarioA == input = Filled(2, 2, black) /\ snapshot = One

UnitCell(x, y) == Rectangle(ToF64(x), ToF64(y), ToF64(x + 1), ToF64(y + 1))

\* C7, as stated: total darkness 4, num_rects 4, and the run makes exactly one
\* vertical and one horizontal split, which leave the four quadrants as cells.
C7_OneSplitEachWay ==
    (ScenarioA /\ pc = "done") =>
        /\ total_darkness = ToF64(4) /\ num_rects = 4
        /\ vlines = 1 /\ hlines = 1
        /\ cells = {UnitCell(c[1], c[2]) : c \in Coords(2, 2)}

\* C7, amended: total darkness 4 and num_rects 4; one horizontal split at
\* y = 1 and then one vertical split at x = 1 in each half; the four cells
\* are the unit squares, and in the output only pixel (0, 0) stays white.
C7_ScenarioA ==
    (ScenarioA /\ Running) =>
        /\ total_darkness = ToF64(4) /\ num_rects = 4
        /\ pc = "done" =>
              /\ hlines = 1 /\ vlines = 2 /\ leaves = 4
              /\ cells = {UnitCell(c[1], c[2]) : c \in Coords(2, 2)}
              /\ output.px = [c \in Coords(2, 2) |->
                                IF c = <<0, 0>> THEN white ELSE black]

C7_Witness == ScenarioA /\ pc = "done" /\ leaves = 4

OnePixel == input.width = 1 /\ input.height = 1

\* round(darkness * rects_per_pixel) of a single pixel of luma p, in integers.
OnePixelRects(p, rpp) ==
    (2 * rpp[1] * (DEFAULT_MAX_VALUE - p) + DEFAULT_MAX_VALUE * rpp[2])
        \div (2 * DEFAULT_MAX_VALUE * rpp[2])

\* C8, as stated: on a 1 x 1 input with any rects_per_pixel > 0 draw_rects
\* never finds a split, draws no line and makes no recursive call.
C8_NeverSplits ==
    (OnePixel /\ RGt(snapshot, Zero)) =>
        /\ last.kind # "split"
        /\ vlines + hlines = 0
        /\ Len(stack) <= 1
        /\ leaves <= 1

\* C8, amended: a 1 x 1 input yields round(darkness * rects_per_pixel) cells:
\* with a count of at most 1 there is no split, no line and no recursive
\* call; with a count of 2 or more the pixel is split num_rects - 1 times at
\* sub-pixel coordinates and is drawn black.
C8_OnePixel ==
    (OnePixel /\ Running) =>
        /\ num_rects = OnePixelRects(input.px[<<0, 0>>], snapshot)
        /\ pc # "panicked"
        /\ num_rects <= 1 =>
              /\ vlines + hlines = 0 /\ last.kind # "split" /\ Len(stack) <= 1
              /\ output.px[<<0, 0>>] = white
        /\ (num_rects >= 2 /\ pc = "done") =>
              /\ vlines + hlines = num_rects - 1 /\ leaves = num_rects
              /\ output.px[<<0, 0>>] = black

\* A single dark pixel asked for two or more rectangles.
C8_Witness == OnePixel /\ pc = "done" /\ num_rects >= 2 /\ leaves = num_rects

\* C5: whatever set_property writes while a frame is in flight, the frame
\* works with the value copied at its entry: num_rects and the recalibrated
\* rects_per_pixel derive from that copy, and every call of draw_rects of the
\* frame carries that recalibrated value.
C5_SnapshotIsolation ==
    Running =>
        /\ num_rects = NumRects(TotalDarkness(input), snapshot)
        /\ settings = RDiv(ToF64(num_rects), TotalDarkness(input))
        /\ \A k \in DOMAIN stack : stack[k].settings = settings
        /\ last.kind # "none" => last.rpp = settings

\* A frame in flight that split after set_property changed the setting to a
\* value that would have given another number of rectangles.
C5_Witness ==
    /\ pc = "draw_rects" /\ written /\ last.kind = "split"
    /\ NumRects(TotalDarkness(input), shared) # num_rects

====
